---- MODULE Spec2Model ----
(***************************************************************************)
(* Mini-RPC: one connection, seen from the endpoint that owns it.          *)
(*                                                                         *)
(* role = "client": the Client engine of src/unnamed/part_000 (Go, send,   *)
(* registerCall, removeCall, receive, terminateCalls, Close) over a        *)
(* GobCodec, against a peer that may answer with any header and body.      *)
(* role = "server": ServeConn / serveCodec / readRequest / handleRequest / *)
(* sendResponse of src/server.go over a GobCodec, against a peer that may  *)
(* write any handshake record and any requests.                            *)
(*                                                                         *)
(* Steps are as fine as the locks make observable: a section run under the *)
(* bookkeeping lock mu with no blocking operation inside is one step; the  *)
(* two Encode calls of GobCodec.Write are separate steps; a send on a Done *)
(* channel blocks while the channel is full.                               *)
(***************************************************************************)
EXTENDS Naturals, Integers, Sequences, FiniteSets, TLC

\* ------------------------------------------------------------- bounds
\* number of Calls created by Go (each by its own goroutine)
MaxCalls == 2
\* capacity of the Done channel a caller supplies (Go panics on 0)
DoneCap == 1
\* number of request messages the peer writes to a server connection
MaxReqs == 2
\* responses the client's decoder may hold beyond the one it is decoding
MaxAhead == 1

\* ---------------------------------------------------- program constants
\* server.go:20  const MagicNumber = 0x3bef5c
MagicNumber == 3927900
\* part_000:268  seq: 1
FirstSeq == 1

GobType == "application/gob"
JsonType == "application/json"
\* an error value is the sequence of the pieces of its text; nil is <<>>
NilErr == <<>>
ErrShutdown == <<"connection is shut down">>

\* a lock is Free or held by a task; tasks are named by tuples
Free == <<"free">>
ReceiveTask == <<"receive">>

Calls == 1 .. MaxCalls
\* the nil *Call
NilCall == 0

\* codec.NewCodecFuncMap after init(): only GobType has a constructor
NewCodecFuncMap == (GobType :> "NewGobCodec")

\* NewCodecFuncMap[t]; a missing key yields the nil func
CodecFuncOf(t) == IF t \in DOMAIN NewCodecFuncMap THEN NewCodecFuncMap[t] ELSE "nil"

VARIABLES
  role,       \* which endpoint of the connection this process is
  \* ---- GobCodec (one per endpoint)
  buf,        \* GobCodec.buf: encoded values not yet flushed
  bufErr,     \* the bufio.Writer's sticky error (set by a failed flush)
  connClosed, \* conn.Close() has been called on this endpoint
  peerGone,   \* the peer has closed or reset its end
  wire,       \* what this endpoint has put on the connection, in order
  sending,    \* the send lock: Free or the task holding it
  ahead,      \* records in the gob decoder's buffer: read from conn, not yet decoded
  \* ---- Client
  mu,         \* the bookkeeping lock: Free or the task holding it
  seq,        \* Client.seq
  pending,    \* Client.pending: a function from sequence numbers to Calls
  closing,    \* Client.closing
  shutdown,   \* Client.shutdown
  header,     \* Client.header, the header the send path reuses
  pc,         \* per Call: where its goroutine is inside Go/send
  callSeq,    \* Call.Seq
  callErr,    \* Call.Error
  callReply,  \* what Call.Reply points at
  doneCount,  \* how many times the Call has been sent on Call.Done
  userq,      \* number of Calls buffered in the Done channel the callers supplied
  rpc,        \* where the receive goroutine is
  cur,        \* receive's h, the Header of the response it is working on
  rcall,      \* the Call removeCall returned to receive
  rerr,       \* receive's err
  todo,       \* keys the range loop of terminateCalls has yet to visit
  closeRet,   \* what the latest call of Close returned
  codecCloses,\* number of times Client.Close called cc.Close()
  issued,     \* sequence numbers registerCall handed out, in order
  wasPending, \* the Calls that were pending when Close was first called
  scall,      \* the Call removeCall returned to send
  \* ---- Server (one connection)
  inq,        \* what the peer has written and no decoder has taken yet
  written,    \* number of records the peer has written (Option, then requests)
  spc,        \* where ServeConn / serveCodec is
  hs,         \* the handshake record ServeConn decoded
  overRead,   \* what the json.Decoder took from the connection past the Option
  codecMade,  \* f(conn) has been called
  sreq,       \* the header readRequest has read and is reading the body for
  wpc,        \* per response writer: where it is (0 is serveCodec itself)
  wreq        \* per response writer: the header and body it answers with

cvars == <<mu, seq, pending, closing, shutdown, header, pc, callSeq, callErr,
           callReply, doneCount, userq, rpc, cur, rcall, rerr, todo,
           closeRet, codecCloses, issued, wasPending, scall>>
gvars == <<buf, bufErr, connClosed, peerGone, wire, sending>>
svars == <<inq, written, spc, hs, overRead, codecMade, sreq, wpc, wreq>>

\* ------------------------------------------------------------ GobCodec
NilHeader == [ServiceMethod |-> "", Seq |-> 0, Error |-> <<>>]

\* an encoded Header / an encoded body, as written by task `by`
HeaderFrame(by, h) == <<"H", by, h>>
BodyFrame(by, v) == <<"B", by, v>>

\* conn.Write succeeds only on an open connection with a live peer
ConnWritable == ~connClosed /\ ~peerGone

\* bufio.Writer.Flush of contents b: a sticky error or a failed conn.Write
\* leaves b buffered and sets the sticky error; GobCodec.Write drops the result
Flush(b) ==
  IF bufErr \/ ~ConnWritable
    THEN /\ bufErr' = TRUE
         /\ buf' = b
         /\ wire' = wire
    ELSE /\ bufErr' = bufErr
         /\ buf' = <<>>
         /\ wire' = wire \o b

\* enc.Encode(h) fails when the bufio.Writer it writes to holds a sticky error
EncodeHeaderFails == bufErr

\* enc.Encode(body) fails for a value gob cannot encode, or on a sticky error
EncodeBodyFails(bad) == bad \/ bufErr

\* GobCodec.Close: conn.Close()
CodecClose == connClosed' = TRUE

\* GobCodec.Write up to and including enc.Encode(h). ok' tells the caller
\* whether Write goes on to the body; on failure the deferred function
\* flushes and closes the codec.
WriteHeaderOK(by, h) ==
  /\ ~EncodeHeaderFails
  /\ buf' = Append(buf, HeaderFrame(by, h))
  /\ UNCHANGED <<bufErr, connClosed, wire>>

WriteHeaderErr ==
  /\ EncodeHeaderFails
  /\ Flush(buf)
  /\ CodecClose

\* GobCodec.Write from enc.Encode(body) to its return
WriteBodyOK(by, v, bad) ==
  /\ ~EncodeBodyFails(bad)
  /\ Flush(Append(buf, BodyFrame(by, v)))
  /\ UNCHANGED connClosed

WriteBodyErr(bad) ==
  /\ EncodeBodyFails(bad)
  /\ Flush(buf)
  /\ CodecClose

\* the peer closes or resets its end of the connection
PeerClose ==
  /\ ~peerGone
  /\ peerGone' = TRUE
  /\ UNCHANGED svars
  /\ UNCHANGED <<role, ahead, buf, bufErr, connClosed, wire, sending>>
  /\ UNCHANGED cvars

\* -------------------------------------------------------------- Client
\* what the peer may put in a response. Its Header: any sequence number a
\* Call could carry and 0, and an empty or non-empty Error (a text is the
\* sequence of its pieces; "%d" is a formatting verb). Its body, decoded by a
\* separate ReadBody: one that decodes into the reply ("a"), has another type
\* ("mistyped"), or breaks off ("truncated").
RespSeqs == 0 .. MaxCalls
ErrTexts == {<<>>, <<"boom ", "%d">>}
Bodies == {"a", "mistyped", "truncated"}
Responses == [Seq : RespSeqs, Error : ErrTexts]
NoResp == [Seq |-> 0, Error |-> <<>>]

\* fmt.Errorf(h.Error): the text is used as the format, with no operands
Errorf(t) == [i \in 1 .. Len(t) |-> IF t[i] = "%d" THEN "%!d(MISSING)" ELSE t[i]]

\* cc.ReadBody(nil): gob skips the value; only a broken stream fails
DiscardBodyFails(b) == b = "truncated"

\* cc.ReadBody(call.Reply): the value must also fit the reply's type
DecodeBodyFails(b) == b \in {"mistyped", "truncated"}

\* Call.done: call.Done <- call blocks while the channel is full
ChanFull == userq >= DoneCap

done(c) ==
  /\ ~ChanFull
  /\ doneCount' = [doneCount EXCEPT ![c] = @ + 1]
  /\ userq' = userq + 1

\* registerCall as it would be if it tested client.closing alone
registerCallRejects_closingOnly == closing

\* registerCall's test: client.closing || client.shutdown
registerCallRejects == closing \/ shutdown

\* registerCall as it would be without client.seq++
NextSeq_noIncrement(s) == s

\* registerCall: client.seq++
NextSeq(s) == s + 1

\* client.pending[call.Seq] = call
PendingPut(p, s, c) == [k \in DOMAIN p \cup {s} |-> IF k = s THEN c ELSE p[k]]

\* removeCall as it would be if it took the oldest pending Call, whatever seq
PendingGet_oldest(p, s) ==
  IF DOMAIN p = {} THEN NilCall
  ELSE p[CHOOSE k \in DOMAIN p : \A j \in DOMAIN p : k <= j]

\* removeCall: call := client.pending[seq] (nil when absent)
PendingGet(p, s) == IF s \in DOMAIN p THEN p[s] ELSE NilCall

\* removeCall as it would be without the delete
PendingDelete_none(p, s) == p

\* removeCall: delete(client.pending, seq)
PendingDelete(p, s) == [k \in DOMAIN p \ {s} |-> p[k]]

Range(f) == {f[k] : k \in DOMAIN f}

\* send as it would be without client.sending.Lock()
sendMayEnter_noLock == TRUE

\* send: client.sending.Lock()
sendMayEnter == sending = Free

\* Go creates the Call (Seq 0, Error nil; Done is the buffered channel the
\* caller passed) and enters send: the send lock is taken. Entries into send
\* are serialised by the send lock; the Calls are named 1, 2, ... in the
\* order in which they enter.
Go(c) ==
  /\ role = "client"
  /\ pc[c] = "idle"
  /\ \A d \in Calls : d < c => pc[d] # "idle"
  /\ sendMayEnter
  /\ sending' = <<"call", c>>
  /\ pc' = [pc EXCEPT ![c] = "register"]
  /\ UNCHANGED svars
  /\ UNCHANGED <<role, ahead, buf, bufErr, connClosed, peerGone, wire>>
  /\ UNCHANGED <<mu, seq, pending, closing, shutdown, header, callSeq, callErr,
                 callReply, doneCount, userq, rpc, cur, rcall, rerr, todo,
                 closeRet, codecCloses, issued, wasPending, scall>>

\* send: registerCall, which waits for mu, and what follows its return:
\* either the refusal is noted (call.Error = err) or the header fields are set
Register(c) ==
  /\ role = "client"
  /\ pc[c] = "register"
  /\ mu = Free
  /\ IF registerCallRejects
       THEN /\ callErr' = [callErr EXCEPT ![c] = ErrShutdown]
            /\ pc' = [pc EXCEPT ![c] = "rejected"]
            /\ UNCHANGED <<seq, pending, header, callSeq, issued>>
       ELSE /\ callSeq' = [callSeq EXCEPT ![c] = seq]
            /\ pending' = PendingPut(pending, seq, c)
            /\ seq' = NextSeq(seq)
            /\ issued' = Append(issued, seq)
            /\ header' = [ServiceMethod |-> "Foo.Sum", Seq |-> seq, Error |-> <<>>]
            /\ pc' = [pc EXCEPT ![c] = "writeHeader"]
            /\ UNCHANGED callErr
  /\ UNCHANGED svars
  /\ UNCHANGED <<role, ahead, buf, bufErr, connClosed, peerGone, wire, sending>>
  /\ UNCHANGED <<mu, closing, shutdown, callReply, doneCount, userq, rpc,
                 cur, rcall, rerr, todo, closeRet, codecCloses, wasPending,
                 scall>>

\* send, registration refused: call.done(), return (the send lock is released)
Rejected(c) ==
  /\ role = "client"
  /\ pc[c] = "rejected"
  /\ done(c)
  /\ sending' = Free
  /\ pc' = [pc EXCEPT ![c] = "returned"]
  /\ UNCHANGED svars
  /\ UNCHANGED <<role, ahead, buf, bufErr, connClosed, peerGone, wire>>
  /\ UNCHANGED <<mu, seq, pending, closing, shutdown, header, callSeq, callErr,
                 callReply, rpc, cur, rcall, rerr, todo, closeRet,
                 codecCloses, issued, wasPending, scall>>

\* send: client.cc.Write, the Header
SendHeader(c) ==
  /\ role = "client"
  /\ pc[c] = "writeHeader"
  /\ \/ /\ WriteHeaderOK(<<"call", c>>, header)
        /\ pc' = [pc EXCEPT ![c] = "writeBody"]
     \/ /\ WriteHeaderErr
        /\ pc' = [pc EXCEPT ![c] = "remove"]
  /\ UNCHANGED svars
  /\ UNCHANGED <<role, ahead, peerGone, sending>>
  /\ UNCHANGED <<mu, seq, pending, closing, shutdown, header, callSeq, callErr,
                 callReply, doneCount, userq, rpc, cur, rcall, rerr, todo,
                 closeRet, codecCloses, issued, wasPending, scall>>

\* send: client.cc.Write, the body (call.Args; bad: gob cannot encode it).
\* On success send returns and the send lock is released.
SendBody(c, bad) ==
  /\ role = "client"
  /\ pc[c] = "writeBody"
  /\ \/ /\ WriteBodyOK(<<"call", c>>, c, bad)
        /\ pc' = [pc EXCEPT ![c] = "returned"]
        /\ sending' = Free
     \/ /\ WriteBodyErr(bad)
        /\ pc' = [pc EXCEPT ![c] = "remove"]
        /\ UNCHANGED sending
  /\ UNCHANGED svars
  /\ UNCHANGED <<role, ahead, peerGone>>
  /\ UNCHANGED <<mu, seq, pending, closing, shutdown, header, callSeq, callErr,
                 callReply, doneCount, userq, rpc, cur, rcall, rerr, todo,
                 closeRet, codecCloses, issued, wasPending, scall>>

\* send, Write failed: call := client.removeCall(seq); a nil call ends send
SendRemove(c) ==
  /\ role = "client"
  /\ pc[c] = "remove"
  /\ mu = Free
  /\ LET call == PendingGet(pending, callSeq[c]) IN
       /\ pending' = PendingDelete(pending, callSeq[c])
       /\ scall' = call
       /\ IF call = NilCall
            THEN /\ pc' = [pc EXCEPT ![c] = "returned"]
                 /\ sending' = Free
                 /\ UNCHANGED callErr
            ELSE /\ callErr' = [callErr EXCEPT ![call] = <<"write error">>]
                 /\ pc' = [pc EXCEPT ![c] = "failed"]
                 /\ UNCHANGED sending
  /\ UNCHANGED svars
  /\ UNCHANGED <<role, ahead, buf, bufErr, connClosed, peerGone, wire>>
  /\ UNCHANGED <<mu, seq, closing, shutdown, header, callSeq, callReply,
                 doneCount, userq, rpc, cur, rcall, rerr, todo, closeRet,
                 codecCloses, issued, wasPending>>

\* send, Write failed: call.done(), return
SendFailed(c) ==
  /\ role = "client"
  /\ pc[c] = "failed"
  /\ done(scall)
  /\ scall' = NilCall
  /\ sending' = Free
  /\ pc' = [pc EXCEPT ![c] = "returned"]
  /\ UNCHANGED svars
  /\ UNCHANGED <<role, ahead, buf, bufErr, connClosed, peerGone, wire>>
  /\ UNCHANGED <<mu, seq, pending, closing, shutdown, header, callSeq, callErr,
                 callReply, rpc, cur, rcall, rerr, todo, closeRet,
                 codecCloses, issued, wasPending>>

\* receive: client.cc.ReadHeader(&h) returns a header; the peer chose the
\* response. gob's decoder reads conn through a buffer: with nothing
\* buffered it reads from the connection, which must be open, and takes the
\* response and k further ones that had arrived (a peer that has gone may
\* have left responses unread on the connection); a buffered response is
\* decoded without touching the connection, whatever has become of it.
RecvHeader(resp, k) ==
  /\ role = "client"
  /\ rpc = "readHeader"
  /\ IF ahead > 0
       THEN k = ahead - 1
       ELSE ~connClosed /\ k \in 0 .. MaxAhead
  /\ ahead' = k
  /\ cur' = resp
  /\ rpc' = "remove"
  /\ UNCHANGED svars
  /\ UNCHANGED <<role, buf, bufErr, connClosed, peerGone, wire, sending>>
  /\ UNCHANGED <<mu, seq, pending, closing, shutdown, header, pc, callSeq, callErr,
                 callReply, doneCount, userq, rcall, rerr, todo,
                 closeRet, codecCloses, issued, wasPending, scall>>

\* receive: client.cc.ReadHeader(&h) fails (closed connection, end of
\* stream, malformed frame); the loop is left
RecvHeaderErr ==
  /\ role = "client"
  /\ rpc = "readHeader"
  /\ rerr' = <<"read header error">>
  /\ rpc' = "terminate"
  /\ UNCHANGED svars
  /\ UNCHANGED <<role, ahead, buf, bufErr, connClosed, peerGone, wire, sending>>
  /\ UNCHANGED <<mu, seq, pending, closing, shutdown, header, pc, callSeq, callErr,
                 callReply, doneCount, userq, cur, rcall, todo,
                 closeRet, codecCloses, issued, wasPending, scall>>

\* receive: call := client.removeCall(h.Seq)
RecvRemove ==
  /\ role = "client"
  /\ rpc = "remove"
  /\ mu = Free
  /\ rcall' = PendingGet(pending, cur.Seq)
  /\ pending' = PendingDelete(pending, cur.Seq)
  /\ rpc' = "body"
  /\ UNCHANGED svars
  /\ UNCHANGED <<role, ahead, buf, bufErr, connClosed, peerGone, wire, sending>>
  /\ UNCHANGED <<mu, seq, closing, shutdown, header, pc, callSeq, callErr,
                 callReply, doneCount, userq, cur, rerr, todo,
                 closeRet, codecCloses, issued, wasPending, scall>>

\* err = client.cc.ReadBody(...): what receive's err becomes
BodyErr(failed) == IF failed THEN <<"read body error">> ELSE NilErr

\* receive, after the switch: the loop goes on while err == nil (e is err);
\* the iteration's h and call go out of scope
AfterBody(e) ==
  /\ rpc' = IF e # NilErr THEN "terminate" ELSE "readHeader"
  /\ cur' = NoResp
  /\ rcall' = NilCall

\* receive, case call == nil: the body b is read and dropped
RecvNoCall(b) ==
  /\ role = "client"
  /\ rpc = "body"
  /\ rcall = NilCall
  /\ rerr' = BodyErr(DiscardBodyFails(b))
  /\ AfterBody(BodyErr(DiscardBodyFails(b)))
  /\ UNCHANGED svars
  /\ UNCHANGED <<role, ahead, buf, bufErr, connClosed, peerGone, wire, sending>>
  /\ UNCHANGED <<mu, seq, pending, closing, shutdown, header, pc, callSeq, callErr,
                 callReply, doneCount, userq, todo,
                 closeRet, codecCloses, issued, wasPending, scall>>

\* receive, case h.Error != "": call.Error = fmt.Errorf(h.Error); the read
\* of the body is next
RecvSetError ==
  /\ role = "client"
  /\ rpc = "body"
  /\ rcall # NilCall
  /\ cur.Error # <<>>
  /\ callErr' = [callErr EXCEPT ![rcall] = Errorf(cur.Error)]
  /\ rpc' = "errBody"
  /\ UNCHANGED svars
  /\ UNCHANGED <<role, ahead, buf, bufErr, connClosed, peerGone, wire, sending>>
  /\ UNCHANGED <<mu, seq, pending, closing, shutdown, header, pc, callSeq,
                 callReply, doneCount, userq, cur, rcall, rerr, todo,
                 closeRet, codecCloses, issued, wasPending, scall>>

\* receive, case h.Error != "": err = cc.ReadBody(nil), the body b is dropped;
\* call.done() is next
RecvError(b) ==
  /\ role = "client"
  /\ rpc = "errBody"
  /\ rerr' = BodyErr(DiscardBodyFails(b))
  /\ rpc' = "deliver"
  /\ UNCHANGED svars
  /\ UNCHANGED <<role, ahead, buf, bufErr, connClosed, peerGone, wire, sending>>
  /\ UNCHANGED <<mu, seq, pending, closing, shutdown, header, pc, callSeq, callErr,
                 callReply, doneCount, userq, cur, rcall, todo,
                 closeRet, codecCloses, issued, wasPending, scall>>

\* receive, default case: the body b is decoded into call.Reply, or its
\* failure becomes the Call's error; call.done() is next
RecvReply(b) ==
  /\ role = "client"
  /\ rpc = "body"
  /\ rcall # NilCall
  /\ cur.Error = <<>>
  /\ IF DecodeBodyFails(b)
       THEN /\ callErr' = [callErr EXCEPT ![rcall] = <<"reading body">>]
            /\ UNCHANGED callReply
       ELSE /\ callReply' = [callReply EXCEPT ![rcall] = b]
            /\ UNCHANGED callErr
  /\ rerr' = BodyErr(DecodeBodyFails(b))
  /\ rpc' = "deliver"
  /\ UNCHANGED svars
  /\ UNCHANGED <<role, ahead, buf, bufErr, connClosed, peerGone, wire, sending>>
  /\ UNCHANGED <<mu, seq, pending, closing, shutdown, header, pc, callSeq,
                 doneCount, userq, cur, rcall, todo,
                 closeRet, codecCloses, issued, wasPending, scall>>

\* receive: call.done(), which waits while the Done channel is full; then
\* the loop's test
RecvDone ==
  /\ role = "client"
  /\ rpc = "deliver"
  /\ done(rcall)
  /\ AfterBody(rerr)
  /\ UNCHANGED svars
  /\ UNCHANGED <<role, ahead, buf, bufErr, connClosed, peerGone, wire, sending>>
  /\ UNCHANGED <<mu, seq, pending, closing, shutdown, header, pc, callSeq, callErr,
                 callReply, rerr, todo,
                 closeRet, codecCloses, issued, wasPending, scall>>

\* terminateCalls as it would be if its loop visited no Call
TermKeys_none(p) == {}

\* terminateCalls: for _, call := range client.pending
TermKeys(p) == DOMAIN p

\* terminateCalls as it would be if it locked mu before the send lock
TermLockOrder_muFirst == <<"mu", "sending">>

\* terminateCalls: client.sending.Lock() comes first, client.mu.Lock() second
TermLockOrder == <<"sending", "mu">>

\* l.Lock() by the receive goroutine: it waits while the lock is held
ReceiveLocks(l) ==
  IF l = "sending"
    THEN sending = Free /\ sending' = ReceiveTask /\ UNCHANGED mu
    ELSE mu = Free /\ mu' = ReceiveTask /\ UNCHANGED sending

\* terminateCalls: the first of its two Lock calls
TermLock ==
  /\ role = "client"
  /\ rpc = "terminate"
  /\ ReceiveLocks(TermLockOrder[1])
  /\ rpc' = "locked"
  /\ UNCHANGED svars
  /\ UNCHANGED <<role, ahead, buf, bufErr, connClosed, peerGone, wire>>
  /\ UNCHANGED <<seq, pending, closing, shutdown, header, pc, callSeq, callErr,
                 callReply, doneCount, userq, cur, rcall, rerr, todo,
                 closeRet, codecCloses, issued, wasPending, scall>>

\* terminateCalls: the second Lock call; client.shutdown = true; the range
\* over client.pending starts
TermShutdown ==
  /\ role = "client"
  /\ rpc = "locked"
  /\ ReceiveLocks(TermLockOrder[2])
  /\ shutdown' = TRUE
  /\ todo' = TermKeys(pending)
  /\ rpc' = "range"
  /\ UNCHANGED svars
  /\ UNCHANGED <<role, ahead, buf, bufErr, connClosed, peerGone, wire>>
  /\ UNCHANGED <<seq, pending, closing, header, pc, callSeq, callErr,
                 callReply, doneCount, userq, cur, rcall, rerr,
                 closeRet, codecCloses, issued, wasPending, scall>>

\* terminateCalls, one iteration (map order is unspecified):
\* call.Error = err; call.done() is next
TermCall(k) ==
  /\ role = "client"
  /\ rpc = "range"
  /\ k \in todo
  /\ rcall' = pending[k]
  /\ callErr' = [callErr EXCEPT ![pending[k]] = rerr]
  /\ todo' = todo \ {k}
  /\ rpc' = "rangeDone"
  /\ UNCHANGED svars
  /\ UNCHANGED <<role, ahead, buf, bufErr, connClosed, peerGone, wire, sending>>
  /\ UNCHANGED <<mu, seq, pending, closing, shutdown, header, pc, callSeq,
                 callReply, doneCount, userq, cur, rerr,
                 closeRet, codecCloses, issued, wasPending, scall>>

\* terminateCalls, the loop body: call.done(), which waits while the Done
\* channel is full, with both locks held
TermDone ==
  /\ role = "client"
  /\ rpc = "rangeDone"
  /\ done(rcall)
  /\ rcall' = NilCall
  /\ rpc' = "range"
  /\ UNCHANGED svars
  /\ UNCHANGED <<role, ahead, buf, bufErr, connClosed, peerGone, wire, sending>>
  /\ UNCHANGED <<mu, seq, pending, closing, shutdown, header, pc, callSeq, callErr,
                 callReply, cur, rerr, todo,
                 closeRet, codecCloses, issued, wasPending, scall>>

\* terminateCalls returns: both locks are released; receive returns
TermReturn ==
  /\ role = "client"
  /\ rpc = "range"
  /\ todo = {}
  /\ mu' = Free
  /\ sending' = Free
  /\ rpc' = "exited"
  /\ UNCHANGED svars
  /\ UNCHANGED <<role, ahead, buf, bufErr, connClosed, peerGone, wire>>
  /\ UNCHANGED <<seq, pending, closing, shutdown, header, pc, callSeq, callErr,
                 callReply, doneCount, userq, cur, rcall, rerr, todo,
                 closeRet, codecCloses, issued, wasPending, scall>>

\* Close as it would be if it tested client.shutdown instead
CloseRefuses_shutdown == shutdown

\* Close's test: client.closing
CloseRefuses == closing

\* conn.Close() reports an error on a connection that is closed already
ConnCloseResult == IF connClosed THEN <<"close error">> ELSE NilErr

\* Client.Close, under mu
Close ==
  /\ role = "client"
  /\ mu = Free
  /\ IF CloseRefuses
       THEN /\ closeRet' = ErrShutdown
            /\ UNCHANGED <<closing, connClosed, codecCloses, wasPending>>
       ELSE /\ closing' = TRUE
            /\ CodecClose
            /\ codecCloses' = codecCloses + 1
            /\ closeRet' = ConnCloseResult
            /\ wasPending' = Range(pending)
  /\ UNCHANGED svars
  /\ UNCHANGED <<role, ahead, buf, bufErr, peerGone, wire, sending>>
  /\ UNCHANGED <<mu, seq, pending, shutdown, header, pc, callSeq, callErr,
                 callReply, doneCount, userq, rpc, cur, rcall, rerr, todo,
                 issued, scall>>

\* IsAvailable: client.mu.Lock() returns once no task holds mu
IsAvailableMayEnter == mu = Free

\* IsAvailable's result: !client.shutdown && !client.closing
IsAvailable == ~shutdown /\ ~closing

\* the caller that supplied the Done channel receives from it
UserRecv ==
  /\ role = "client"
  /\ userq > 0
  /\ userq' = userq - 1
  /\ UNCHANGED svars
  /\ UNCHANGED <<role, ahead, buf, bufErr, connClosed, peerGone, wire, sending>>
  /\ UNCHANGED <<mu, seq, pending, closing, shutdown, header, pc, callSeq, callErr,
                 callReply, doneCount, rpc, cur, rcall, rerr, todo,
                 closeRet, codecCloses, issued, wasPending, scall>>

\* newClientCodec: seq 1, an empty pending map, receive started; NewClient
\* has written the Option record to the connection
DefaultOption == [MagicNumber |-> MagicNumber, CodecType |-> GobType]

ClientInit ==
  /\ mu = Free
  /\ seq = FirstSeq
  /\ pending = <<>>
  /\ closing = FALSE
  /\ shutdown = FALSE
  /\ header = NilHeader
  /\ pc = [c \in Calls |-> "idle"]
  /\ callSeq = [c \in Calls |-> 0]
  /\ callErr = [c \in Calls |-> NilErr]
  /\ callReply = [c \in Calls |-> "none"]
  /\ doneCount = [c \in Calls |-> 0]
  /\ userq = 0
  /\ rpc = IF role = "client" THEN "readHeader" ELSE "none"
  /\ cur = NoResp
  /\ rcall = NilCall
  /\ rerr = NilErr
  /\ todo = {}
  /\ closeRet = <<"not called">>
  /\ codecCloses = 0
  /\ issued = <<>>
  /\ wasPending = {}
  /\ scall = NilCall

\* every step of the client but a call of Close; where a step takes an
\* input, its position is tested before the inputs are enumerated
ClientActions ==
  \/ \E c \in Calls : Go(c)
  \/ \E c \in Calls : Register(c)
  \/ \E c \in Calls : Rejected(c)
  \/ \E c \in Calls : SendHeader(c)
  \/ \E c \in Calls : pc[c] = "writeBody" /\ \E bad \in BOOLEAN : SendBody(c, bad)
  \/ \E c \in Calls : SendRemove(c)
  \/ \E c \in Calls : SendFailed(c)
  \/ rpc = "readHeader" /\ \E resp \in Responses, k \in 0 .. MaxAhead : RecvHeader(resp, k)
  \/ RecvHeaderErr
  \/ RecvRemove
  \/ rpc = "body" /\ \E b \in Bodies : RecvNoCall(b)
  \/ RecvSetError
  \/ rpc = "errBody" /\ \E b \in Bodies : RecvError(b)
  \/ rpc = "body" /\ \E b \in Bodies : RecvReply(b)
  \/ RecvDone
  \/ TermLock
  \/ TermShutdown
  \/ rpc = "range" /\ \E k \in todo : TermCall(k)
  \/ TermDone
  \/ TermReturn
  \/ UserRecv

ClientNext ==
  \/ ClientActions
  \/ Close

\* -------------------------------------------------------------- Server
\* response writers: 0 is serveCodec answering a request it could not read,
\* 1 .. MaxReqs are the handleRequest goroutines in the order they start
Writers == 0 .. MaxReqs
Workers == 1 .. MaxReqs
WriterTask(t) == <<"writer", t>>

\* what a peer may send as its first record: Option values that decode, and
\* bytes that are no JSON value of that shape
BadMagic == MagicNumber + 1
OptionRecords == [MagicNumber : {MagicNumber, BadMagic},
                  CodecType : {GobType, JsonType, "text/plain"}]
Malformed == [MagicNumber |-> 0, CodecType |-> "malformed"]
NoOption == [MagicNumber |-> 0, CodecType |-> "none"]

\* what a peer may send as a request: a header and a body that is a string
\* ("string") or a value of another type ("mistyped")
ReqSeqs == {0, 1}
ReqHeaders == [ServiceMethod : {"Foo.Sum"}, Seq : ReqSeqs, Error : {<<>>, <<"boom">>}]
ReqBodies == {"string", "mistyped"}

\* invalidRequest = struct{}{}
invalidRequest == "struct{}{}"

\* enc.Encode(body) of a response body: gob encodes a string, and it encodes
\* struct{}{} as well (it refuses a struct only when the struct has fields
\* and none of them is exported)
GobCannotEncode(v) == FALSE

\* json.Decoder.Decode(&opt): the record decodes unless it is malformed
jsonDecodeFails(rec) == rec = Malformed

\* ServeConn: opt.MagicNumber != MagicNumber is refused
MagicOK_any(o) == TRUE

MagicOK(o) == o.MagicNumber = MagicNumber

\* ServeConn's three tests on the handshake record
HandshakeOK(rec) ==
  /\ ~jsonDecodeFails(rec)
  /\ MagicOK(rec)
  /\ CodecFuncOf(rec.CodecType) # "nil"

\* the peer writes its first record
PeerOption(rec) ==
  /\ role = "server"
  /\ written = 0
  /\ ~peerGone
  /\ written' = 1
  /\ inq' = Append(inq, <<"O", rec>>)
  /\ UNCHANGED <<spc, hs, overRead, codecMade, sreq, wpc, wreq>>
  /\ UNCHANGED gvars
  /\ UNCHANGED <<role, ahead>>
  /\ UNCHANGED cvars

\* the peer writes one request: a Header, then its body
PeerRequest(h, b) ==
  /\ role = "server"
  /\ written \in 1 .. MaxReqs
  /\ ~peerGone
  /\ written' = written + 1
  /\ inq' = inq \o << <<"H", h>>, <<"B", b>> >>
  /\ UNCHANGED <<spc, hs, overRead, codecMade, sreq, wpc, wreq>>
  /\ UNCHANGED gvars
  /\ UNCHANGED <<role, ahead>>
  /\ UNCHANGED cvars

\* ServeConn up to serveCodec: json.NewDecoder(conn).Decode(&opt) reads n of
\* the records the connection holds into the decoder's own buffer (a Read
\* returns what is there, up to the buffer's free space) and decodes the
\* first; the decoder and whatever else it holds are then dropped. A record
\* that fails a test ends ServeConn, whose deferred call closes conn.
Handshake(n) ==
  /\ role = "server"
  /\ spc = "handshake"
  /\ n \in 1 .. Len(inq)
  /\ hs' = inq[1][2]
  /\ overRead' = SubSeq(inq, 2, n)
  /\ inq' = SubSeq(inq, n + 1, Len(inq))
  /\ IF HandshakeOK(inq[1][2])
       THEN /\ codecMade' = TRUE
            /\ spc' = "readHeader"
            /\ UNCHANGED connClosed
       ELSE /\ codecMade' = FALSE
            /\ spc' = "closed"
            /\ connClosed' = TRUE
  /\ UNCHANGED <<written, sreq, wpc, wreq>>
  /\ UNCHANGED <<role, ahead, buf, bufErr, peerGone, wire, sending>>
  /\ UNCHANGED cvars

\* ServeConn: Decode(&opt) fails because the stream ends before an Option
\* has arrived; the error is logged, ServeConn returns and closes conn
HandshakeEOF ==
  /\ role = "server"
  /\ spc = "handshake"
  /\ inq = <<>> /\ peerGone
  /\ spc' = "closed"
  /\ connClosed' = TRUE
  /\ UNCHANGED <<inq, written, hs, overRead, codecMade, sreq, wpc, wreq>>
  /\ UNCHANGED <<role, ahead, buf, bufErr, peerGone, wire, sending>>
  /\ UNCHANGED cvars

\* the gob decoder can take the next record: it holds one in its buffer, or
\* the connection is open and has one
DecoderHasRecord == inq # <<>> /\ (ahead > 0 \/ ~connClosed)

\* the gob decoder cannot get a record: nothing is buffered and the
\* connection is closed or the stream has ended
DecoderReadFails == ahead = 0 /\ (connClosed \/ (inq = <<>> /\ peerGone))

\* what the decoder's buffer holds after it has given out one record: one
\* fewer, or, after a Read of the connection, k of the records that had
\* arrived behind it
AheadAfter(k) ==
  IF ahead > 0 THEN k = ahead - 1 /\ ahead' = k
               ELSE k \in 0 .. Len(inq) - 1 /\ ahead' = k

\* gob sends the description of the Header type with the first Header only:
\* a decoder that did not see the first Header cannot decode a later one
HeaderTypeKnown == overRead = <<>>

\* readRequestHeader: cc.ReadHeader(&h) returns a header
ReadHeaderOK(k) ==
  /\ role = "server"
  /\ spc = "readHeader"
  /\ DecoderHasRecord
  /\ inq[1][1] = "H"
  /\ HeaderTypeKnown
  /\ AheadAfter(k)
  /\ sreq' = inq[1][2]
  /\ inq' = Tail(inq)
  /\ spc' = "readBody"
  /\ UNCHANGED <<written, hs, overRead, codecMade, wpc, wreq>>
  /\ UNCHANGED <<role, buf, bufErr, connClosed, peerGone, wire, sending>>
  /\ UNCHANGED cvars

\* readRequestHeader: cc.ReadHeader(&h) fails: the connection is closed, the
\* stream has ended, or what comes next is no Header. readRequest returns
\* (nil, err) and serveCodec leaves its loop.
ReadHeaderErr ==
  /\ role = "server"
  /\ spc = "readHeader"
  /\ \/ DecoderReadFails
     \/ DecoderHasRecord /\ (inq[1][1] # "H" \/ ~HeaderTypeKnown)
  /\ spc' = "wait"
  /\ UNCHANGED <<inq, written, hs, overRead, codecMade, sreq, wpc, wreq>>
  /\ UNCHANGED gvars
  /\ UNCHANGED <<role, ahead>>
  /\ UNCHANGED cvars

\* readRequest's second result: the header error, else nil (the body error is
\* logged and dropped)
readRequestErr(hErr, bErr) == hErr

\* cc.ReadBody(req.argv.Interface()): argv is a *string
ReadBodyErr(b) == IF b = "string" THEN NilErr ELSE <<"gob: type mismatch">>

\* the worker that the next go statement starts
NextWorker == CHOOSE t \in Workers : wpc[t] = "none" /\ \A u \in Workers : u < t => wpc[u] # "none"

\* handleRequest as it would be if the reply did not depend on the request
Reply_fixed(h) == <<"geerpc resp", 0>>

\* handleRequest: fmt.Sprintf("geerpc resp %d", req.h.Seq)
Reply(h) == <<"geerpc resp", h.Seq>>

\* readRequest from the body on, and serveCodec's use of the result: an
\* error with a request at hand is answered by serveCodec itself with
\* req.h.Error set and invalidRequest; otherwise wg.Add(1) and a goroutine
\* runs handleRequest. The body is decoded from the decoder's buffer or the
\* connection; when neither can supply it ReadBody fails with a read error.
ReadBody(k) ==
  /\ role = "server"
  /\ spc = "readBody"
  /\ \/ /\ DecoderHasRecord
        /\ inq[1][1] = "B"
        /\ AheadAfter(k)
        /\ inq' = Tail(inq)
     \/ /\ DecoderReadFails
        /\ k = 0
        /\ UNCHANGED <<inq, ahead>>
  /\ LET bErr == IF DecoderReadFails THEN <<"read error">> ELSE ReadBodyErr(inq[1][2])
         err == readRequestErr(NilErr, bErr) IN
       IF err # NilErr
         THEN /\ wpc' = [wpc EXCEPT ![0] = "start"]
              /\ wreq' = [wreq EXCEPT ![0] = [h |-> [sreq EXCEPT !.Error = err],
                                              body |-> invalidRequest,
                                              argvErr |-> bErr]]
              /\ spc' = "respond"
         ELSE /\ wpc' = [wpc EXCEPT ![NextWorker] = "start"]
              /\ wreq' = [wreq EXCEPT ![NextWorker] = [h |-> sreq,
                                              body |-> Reply(sreq),
                                              argvErr |-> bErr]]
              /\ spc' = "readHeader"
  /\ sreq' = NilHeader
  /\ UNCHANGED <<written, hs, overRead, codecMade>>
  /\ UNCHANGED <<role, buf, bufErr, connClosed, peerGone, wire, sending>>
  /\ UNCHANGED cvars

\* sendResponse as it would be without sending.Lock()
sendResponseMayEnter_noLock == TRUE

\* sendResponse: sending.Lock()
sendResponseMayEnter == sending = Free

\* where serveCodec is once a response writer has returned
AfterResponse(t) == IF t = 0 THEN "readHeader" ELSE spc

\* sendResponse: the lock, then cc.Write up to the Header. A Write that
\* fails is logged; sendResponse returns and unlocks.
RespondHeader(t) ==
  /\ role = "server"
  /\ wpc[t] = "start"
  /\ sendResponseMayEnter
  /\ \/ /\ WriteHeaderOK(WriterTask(t), wreq[t].h)
        /\ sending' = WriterTask(t)
        /\ wpc' = [wpc EXCEPT ![t] = "writeBody"]
        /\ UNCHANGED spc
     \/ /\ WriteHeaderErr
        /\ sending' = Free
        /\ wpc' = [wpc EXCEPT ![t] = "done"]
        /\ spc' = AfterResponse(t)
  /\ UNCHANGED <<inq, written, hs, overRead, codecMade, sreq, wreq>>
  /\ UNCHANGED <<role, ahead, peerGone>>
  /\ UNCHANGED cvars

\* sendResponse: cc.Write from the body on, then the unlock; handleRequest
\* returns (wg.Done)
RespondBody(t) ==
  /\ role = "server"
  /\ wpc[t] = "writeBody"
  /\ \/ WriteBodyOK(WriterTask(t), wreq[t].body, GobCannotEncode(wreq[t].body))
     \/ WriteBodyErr(GobCannotEncode(wreq[t].body))
  /\ sending' = Free
  /\ wpc' = [wpc EXCEPT ![t] = "done"]
  /\ spc' = AfterResponse(t)
  /\ UNCHANGED <<inq, written, hs, overRead, codecMade, sreq, wreq>>
  /\ UNCHANGED <<role, ahead, peerGone>>
  /\ UNCHANGED cvars

\* serveCodec as it would be without wg.Wait()
WorkersFinished_noWait == TRUE

\* wg.Wait(): every handleRequest that was started has called wg.Done
WorkersFinished == \A t \in Workers : wpc[t] \in {"none", "done"}

\* serveCodec after its loop: wg.Wait(), cc.Close(); ServeConn returns
Drain ==
  /\ role = "server"
  /\ spc = "wait"
  /\ WorkersFinished
  /\ CodecClose
  /\ spc' = "closed"
  /\ UNCHANGED <<inq, written, hs, overRead, codecMade, sreq, wpc, wreq>>
  /\ UNCHANGED <<role, ahead, buf, bufErr, peerGone, wire, sending>>
  /\ UNCHANGED cvars

NoReq == [h |-> NilHeader, body |-> "none", argvErr |-> NilErr]

ServerInit ==
  /\ inq = <<>>
  /\ written = 0
  /\ spc = IF role = "server" THEN "handshake" ELSE "none"
  /\ hs = NoOption
  /\ overRead = <<>>
  /\ codecMade = FALSE
  /\ sreq = NilHeader
  /\ wpc = [t \in Writers |-> "none"]
  /\ wreq = [t \in Writers |-> NoReq]

ServerNext ==
  \/ \E rec \in OptionRecords \cup {Malformed} : PeerOption(rec)
  \/ \E h \in ReqHeaders, b \in ReqBodies : PeerRequest(h, b)
  \/ \E n \in 1 .. MaxReqs * 2 + 1 : Handshake(n)
  \/ HandshakeEOF
  \/ \E k \in 0 .. MaxReqs * 2 : ReadHeaderOK(k)
  \/ ReadHeaderErr
  \/ \E k \in 0 .. MaxReqs * 2 : ReadBody(k)
  \/ \E t \in Writers : RespondHeader(t)
  \/ \E t \in Writers : RespondBody(t)
  \/ Drain

vars == <<role, buf, bufErr, connClosed, peerGone, wire, sending, ahead,
          mu, seq, pending, closing, shutdown, header, pc, callSeq, callErr,
          callReply, doneCount, userq, rpc, cur, rcall, rerr, todo,
          closeRet, codecCloses, issued, wasPending, scall,
          inq, written, spc, hs, overRead, codecMade, sreq, wpc, wreq>>

Init ==
  /\ role \in {"client", "server"}
  /\ buf = <<>>
  /\ bufErr = FALSE
  /\ connClosed = FALSE
  /\ peerGone = FALSE
  /\ wire = IF role = "client" THEN << <<"O", <<"NewClient">>, DefaultOption>> >> ELSE <<>>
  /\ sending = Free
  /\ ahead = 0
  /\ ClientInit
  /\ ServerInit

Next ==
  \/ ClientNext
  \/ ServerNext
  \/ PeerClose

Spec == Init /\ [][Next]_vars

\* what the goroutine running send for Call c does next
SendStep(c) ==
  /\ pc[c] \notin {"idle", "returned"}
  /\ \/ Register(c)
     \/ Rejected(c)
     \/ SendHeader(c)
     \/ \E bad \in BOOLEAN : SendBody(c, bad)
     \/ SendRemove(c)
     \/ SendFailed(c)

\* a read of the decoder returns without waiting for the peer: the
\* connection is closed, the peer has gone, or the decoder holds a response
ReadReturns == connClosed \/ peerGone \/ ahead > 0

\* what the receive goroutine does next on its own: every step but a read
\* (of a Header or of a body) that waits for the peer
ReceiveStep ==
  \/ /\ rpc = "readHeader"
     /\ ReadReturns
     /\ \/ RecvHeaderErr
        \/ \E resp \in Responses, k \in 0 .. MaxAhead : RecvHeader(resp, k)
  \/ RecvRemove
  \/ /\ rpc = "body"
     /\ \/ RecvSetError
        \/ ReadReturns /\ \E b \in Bodies : RecvNoCall(b)
        \/ ReadReturns /\ \E b \in Bodies : RecvReply(b)
  \/ rpc = "errBody" /\ ReadReturns /\ \E b \in Bodies : RecvError(b)
  \/ RecvDone
  \/ TermLock
  \/ TermShutdown
  \/ rpc = "range" /\ \E k \in todo : TermCall(k)
  \/ TermDone
  \/ TermReturn

\* a step of a goroutine that exists and can run: the send that holds the
\* send lock (one at a time), the receive loop, and the callers receiving
\* from their Done channel. Nothing forces a caller to call Go or Close, or
\* the peer to answer.
RunnableStep ==
  \/ \E c \in Calls : SendStep(c)
  \/ ReceiveStep
  \/ UserRecv

\* Some goroutine that can run does run: less than the scheduler gives (each
\* goroutine its turn), and enough once Close has been called, as from then
\* on no goroutine can run for ever.
ClientFairness == WF_vars(RunnableStep)

\* the client endpoint alone, with its goroutines running
FairInit == Init /\ role = "client"

\* the caller calls Close once
CloseOnce == ~closing /\ Close

\* the peer's close, while this end has its connection open (afterwards this
\* end cannot tell whether the peer is there)
PeerCloseSeen == ~connClosed /\ PeerClose

FairNext ==
  \/ ClientActions
  \/ CloseOnce
  \/ PeerCloseSeen

FairSpec == FairInit /\ [][FairNext]_vars /\ ClientFairness

\* what the goroutine running ServeConn does next on its own: a read waits
\* for the peer unless it can return at once
ServeStep ==
  \/ \E n \in 1 .. MaxReqs * 2 + 1 : Handshake(n)
  \/ HandshakeEOF
  \/ \E k \in 0 .. MaxReqs * 2 : ReadHeaderOK(k)
  \/ ReadHeaderErr
  \/ \E k \in 0 .. MaxReqs * 2 : ReadBody(k)
  \/ Drain

\* what response writer t does next
WriterStep(t) ==
  \/ RespondHeader(t)
  \/ RespondBody(t)

\* ServeConn and the handleRequest goroutines keep running; nothing forces
\* the peer to write or to close
ServerFairness ==
  /\ WF_vars(ServeStep)
  /\ \A t \in Writers : WF_vars(WriterStep(t))

\* the server endpoint alone, with its goroutines running
ServerFairInit == Init /\ role = "server"

ServerFairNext ==
  \/ ServerNext
  \/ PeerClose

ServerFairSpec == ServerFairInit /\ [][ServerFairNext]_vars /\ ServerFairness

\* ---------------------------------------------------------------- claims
\* the frames task `by` has encoded so far, flushed or not
FramesBy(by) == {i \in 1 .. Len(wire \o buf) : (wire \o buf)[i][2] = by}

\* the step is one of receive's three switch cases
ReceiveCompletes == rpc \in {"body", "errBody", "deliver"} /\ rpc' # rpc

\* the step is an entry into send by Call c
Enters(c) == pc[c] = "idle" /\ pc'[c] # "idle"

\* the step is the return of registerCall to the send of Call c
Registers(c) == pc[c] = "register" /\ pc'[c] # "register"

\* C1: every Call created by Go is sent on its Done channel exactly once:
\* never twice, and not zero times once send has returned and the connection
\* has terminated (a Call whose send has returned and that has not been sent
\* yet is still in the registry or in the hands of receive).
C1_ExactlyOnce ==
  role = "client" =>
    \A c \in Calls :
      /\ doneCount[c] <= 1
      /\ pc[c] = "idle" => doneCount[c] = 0
      /\ (pc[c] = "returned" /\ doneCount[c] = 0) =>
            /\ rpc # "exited"
            /\ \/ \E k \in DOMAIN pending :
                     pending[k] = c /\ (rpc \in {"range", "rangeDone"} => k \in todo)
               \/ rcall = c

C1_Witness ==
  /\ rpc = "exited"
  /\ \A c \in Calls : pc[c] = "returned" /\ doneCount[c] = 1
  /\ \E c \in Calls : callErr[c] = <<"read header error">>
  /\ \E c \in Calls : callErr[c] = <<"write error">>

\* C2: the sequence numbers handed out by registerCall are 1, 2, 3, ... in
\* registration order; no Call that was registered carries 0, and no two
\* Calls carry the same number.
C2_SeqDense ==
  role = "client" =>
    /\ \A i \in 1 .. Len(issued) : issued[i] = i
    /\ seq = Len(issued) + 1
    /\ \A c \in Calls : callSeq[c] # 0 => callSeq[c] \in 1 .. Len(issued)
    /\ \A c \in Calls : pc[c] \in {"writeHeader", "writeBody", "remove", "failed"}
                          => callSeq[c] # 0
    /\ \A c, d \in Calls : c # d /\ callSeq[c] # 0 => callSeq[c] # callSeq[d]

C2_Witness ==
  /\ Len(issued) = MaxCalls
  /\ \A c \in Calls : callSeq[c] # 0

\* C3: receive takes from the registry the Call registered under the
\* sequence number of the response it read, and no other; when it completes
\* a Call, that Call carries the response's sequence number, no other Call is
\* touched, and with an empty Error and a decodable body the Call's reply is
\* the body of that response.
C3_MatchBySeq ==
  /\ [][(rpc = "remove" /\ rpc' = "body") =>
          /\ rcall' = IF cur.Seq \in DOMAIN pending THEN pending[cur.Seq] ELSE NilCall
          /\ DOMAIN pending' = DOMAIN pending \ {cur.Seq}
          /\ \A k \in DOMAIN pending' : pending'[k] = pending[k]
       ]_vars
  /\ [][ReceiveCompletes =>
        /\ rcall # NilCall => callSeq[rcall] = cur.Seq
        /\ \A c \in Calls :
             IF c = rcall
               THEN /\ doneCount'[c] = doneCount[c] + (IF rpc = "deliver" THEN 1 ELSE 0)
                    /\ (rpc = "body" /\ cur.Error = <<>>) =>
                          \/ /\ callErr'[c] = NilErr
                             /\ callReply'[c] \in {v \in Bodies : ~DecodeBodyFails(v)}
                          \/ /\ callErr'[c] = <<"reading body">>
                             /\ callReply'[c] = callReply[c]
                    /\ rpc # "body" =>
                          callErr'[c] = callErr[c] /\ callReply'[c] = callReply[c]
               ELSE /\ doneCount'[c] = doneCount[c]
                    /\ callReply'[c] = callReply[c]
                    /\ callErr'[c] = callErr[c]
     ]_vars

\* the response to the second request has been delivered while the first
\* request is still waiting for its own
C3_Witness ==
  \E c, d \in Calls :
    /\ callSeq[c] = 1 /\ callSeq[d] = 2
    /\ doneCount[d] = 1 /\ callReply[d] = "a" /\ callErr[d] = NilErr
    /\ doneCount[c] = 0 /\ 1 \in DOMAIN pending /\ pending[1] = c

\* C4 as claimed: a Call that was pending when Close was called completes
\* with a non-nil error.
C4_PendingAtCloseFail ==
  role = "client" =>
    \A c \in wasPending : doneCount[c] >= 1 => callErr[c] # NilErr

\* C4, amended: the Calls pending when Close is called all complete, each
\* exactly once, with a non-nil error or else with the reply of a response;
\* a Go that enters send after Close has returned is refused: the registry,
\* the buffer and the connection are left alone and the Call completes with
\* ErrShutdown.
C4_CloseCompletesPending ==
  /\ [](\A c \in wasPending :
          /\ doneCount[c] <= 1
          /\ doneCount[c] = 1 => (callErr[c] # NilErr \/ callReply[c] = "a"))
  /\ [][\A c \in Calls :
          (Registers(c) /\ closing) =>
             /\ pc'[c] = "rejected"
             /\ callErr'[c] = ErrShutdown
             /\ pending' = pending /\ seq' = seq
             /\ buf' = buf /\ wire' = wire
       ]_vars
  /\ [][\A c \in Calls :
          (pc[c] = "rejected" /\ pc'[c] # "rejected") =>
             /\ doneCount'[c] = 1
             /\ callErr'[c] = ErrShutdown
             /\ pending' = pending
             /\ buf' = buf /\ wire' = wire
       ]_vars
  /\ <>[](closing => \A c \in wasPending : doneCount[c] = 1)

\* Close was called with every Call pending; the receive loop has ended and
\* all of them are complete, with the error that ended the loop
C4_Witness ==
  /\ closing
  /\ wasPending = Calls
  /\ rpc = "exited"
  /\ \A c \in Calls : doneCount[c] = 1 /\ callErr[c] = <<"read header error">>

\* C6: a Go whose registerCall runs while closing or shutdown is set leaves
\* the sequence counter and the pending map as they are, encodes and writes
\* nothing (as did its taking of the send lock before), and its Call is sent
\* on Done once, by send's next step, with ErrShutdown.
C6_RejectedNoEffect ==
  /\ [][\A c \in Calls :
          Enters(c) =>
             /\ pc'[c] = "register"
             /\ callErr'[c] = callErr[c] /\ callSeq'[c] = 0
             /\ seq' = seq /\ pending' = pending
             /\ buf' = buf /\ wire' = wire
             /\ doneCount' = doneCount
             /\ closing' = closing /\ shutdown' = shutdown
       ]_vars
  /\ [][\A c \in Calls :
          (Registers(c) /\ (closing \/ shutdown)) =>
             /\ pc'[c] = "rejected"
             /\ callErr'[c] = ErrShutdown
             /\ callSeq'[c] = 0
             /\ seq' = seq /\ pending' = pending
             /\ buf' = buf /\ wire' = wire
             /\ doneCount' = doneCount
       ]_vars
  /\ [][\A c \in Calls :
          (pc[c] = "rejected" /\ pc'[c] # "rejected") =>
             /\ pc'[c] = "returned"
             /\ doneCount[c] = 0 /\ doneCount'[c] = 1
             /\ callErr'[c] = ErrShutdown
             /\ seq' = seq /\ pending' = pending
             /\ buf' = buf /\ wire' = wire
       ]_vars
  /\ [](\A c \in Calls :
          callErr[c] = ErrShutdown =>
             /\ FramesBy(<<"call", c>>) = {}
             /\ c \notin Range(pending)
             /\ pc[c] = "returned" => doneCount[c] = 1)

\* a Call refused because the receive loop had shut the client down (Close
\* was never called), after an earlier Call had been registered and written
C6_Witness ==
  /\ shutdown /\ ~closing
  /\ \E c \in Calls : pc[c] = "returned" /\ callErr[c] = ErrShutdown /\ doneCount[c] = 1
  /\ seq > FirstSeq
  /\ Len(wire) > 1

\* C7: the first call of Close sets closing and calls the codec's Close; a
\* later call returns ErrShutdown and changes nothing else, so Client.Close
\* calls the codec's Close at most once.
C7_CloseIdempotent ==
  /\ [][closeRet' # closeRet =>
          IF closing
            THEN /\ closeRet' = ErrShutdown
                 /\ UNCHANGED svars
                 /\ UNCHANGED <<role, ahead, buf, bufErr, connClosed, peerGone, wire,
                                sending, mu, seq, pending, closing, shutdown,
                                header, pc, callSeq, callErr, callReply,
                                doneCount, userq, rpc, cur, rcall, rerr, todo,
                                codecCloses, issued, wasPending, scall>>
            ELSE /\ closing' /\ connClosed'
                 /\ codecCloses' = codecCloses + 1
                 /\ closeRet' # ErrShutdown
       ]_vars
  /\ [](codecCloses <= 1 /\ (codecCloses = 1 <=> closing))

\* a second call of Close, made after the receive loop had set shutdown
C7_Witness ==
  /\ closeRet = ErrShutdown
  /\ shutdown
  /\ codecCloses = 1

\* C5 as claimed: a request whose body failed to decode is answered by
\* serveCodec itself, with a non-empty Header.Error and the invalid-request
\* placeholder, and no worker is started for it.
C5_DecodeErrorAnswered ==
  role = "server" =>
    \A t \in Writers :
      (wpc[t] # "none" /\ wreq[t].argvErr # NilErr) =>
         /\ t = 0
         /\ wreq[t].h.Error # <<>>
         /\ wreq[t].body = invalidRequest

\* the handshake record is one the claim calls invalid
C8_Invalid ==
  \/ hs.CodecType = "malformed"
  \/ hs.MagicNumber # 3927900
  \/ hs.CodecType # "application/gob"

\* C8: after a handshake record that is malformed, has another magic number
\* or names a codec with no constructor, ServeConn has returned and closed
\* the connection; no codec was made, no Header or body was read by a codec,
\* no response writer was started and nothing was encoded or written.
C8_BadHandshakeSilent ==
  (role = "server" /\ hs # NoOption /\ C8_Invalid) =>
     /\ spc = "closed"
     /\ connClosed
     /\ ~codecMade
     /\ sreq = NilHeader
     /\ \A t \in Writers : wpc[t] = "none"
     /\ wire = <<>>
     /\ buf = <<>>

\* "application/json" with the right magic number, from a peer that went on
\* to write a request
C8_Witness ==
  /\ role = "server"
  /\ hs = [MagicNumber |-> MagicNumber, CodecType |-> JsonType]
  /\ spc = "closed"
  /\ written > 1

\* C9 as claimed: once the handshake has succeeded, the handshake step has
\* taken the Option record from the connection and nothing after it.
C9_HandshakeTakesOnlyOption ==
  (role = "server" /\ codecMade) => overRead = <<>>

\* the tasks that are inside GobCodec.Write, between its two Encode calls
InWrite ==
  {c \in Calls : pc[c] = "writeBody"} \cup {t \in Writers : wpc[t] = "writeBody"}

\* in q every body follows the Header of the same writer, and every Header
\* that is not last is followed by the body of the same writer
WholePairs(q) ==
  \A i \in 1 .. Len(q) :
    /\ q[i][1] = "B" => (i > 1 /\ q[i - 1][1] = "H" /\ q[i - 1][2] = q[i][2])
    /\ (q[i][1] = "H" /\ i < Len(q)) => (q[i + 1][1] = "B" /\ q[i + 1][2] = q[i][2])

\* C10: on either endpoint at most one task is inside codec.Write, and what
\* has been encoded and what has been put on the connection is a run of
\* Header-then-body pairs, each pair from one writer.
C10_WritesDoNotInterleave ==
  /\ Cardinality(InWrite) <= 1
  /\ InWrite # {} => sending # Free
  /\ WholePairs(buf)
  /\ WholePairs(wire)

\* two handleRequest goroutines have answered on one connection, the second
\* request first
C10_Witness ==
  /\ role = "server"
  /\ Len(wire) = 4
  /\ wire[1][2] = WriterTask(2)
  /\ wire[3][2] = WriterTask(1)

\* C11: serveCodec closes the codec only when every handleRequest it started
\* has finished, each of them having gone through sendResponse, and once the
\* read loop has exited serveCodec does close the codec.
C11_CloseAfterWorkers ==
  /\ [][(spc = "wait" /\ spc' = "closed") =>
          /\ \A t \in Workers : wpc[t] \in {"none", "done"}
          /\ \A t \in Workers : wreq[t] # NoReq => wpc[t] = "done"
          /\ sending = Free
       ]_vars
  /\ [](\A t \in Workers : (wpc[t] = "none") <=> (wreq[t] = NoReq))
  /\ ((spc = "wait") ~> (spc = "closed"))

\* the read loop ended on a closed stream with every worker started, and
\* serveCodec has closed the codec after the last of them wrote its response
C11_Witness ==
  /\ role = "server"
  /\ codecMade
  /\ spc = "closed"
  /\ \A t \in Workers : wpc[t] = "done"
  /\ Len(wire) = 2 * MaxReqs

\* C12 as claimed: the receive loop ends, and shutdown is set, on a
\* Header-read failure only; no Call is completed with the error of a body
\* that failed to decode or to be discarded, other than the Call the body
\* was for.
C12_OnlyHeaderReadFatal ==
  role = "client" =>
    /\ rpc \in {"terminate", "locked", "range", "rangeDone", "exited"} =>
          rerr = <<"read header error">>
    /\ shutdown => rerr = <<"read header error">>
    /\ \A c \in Calls : callErr[c] # <<"read body error">>

\* C13 as claimed: a response with a non-empty Error completes the Call
\* registered under its sequence number with that error text, and leaves
\* every other Call, the registry and the closing and shutdown flags as they
\* are.
C13_ErrorResponse ==
  /\ [][(rpc = "body" /\ rcall # NilCall /\ cur.Error # <<>> /\ rpc' # "body") =>
          /\ callSeq[rcall] = cur.Seq
          /\ callErr'[rcall] = cur.Error
          /\ \A c \in Calls \ {rcall} : callErr'[c] = callErr[c]
          /\ doneCount' = doneCount
          /\ pending' = pending
          /\ closing' = closing /\ shutdown' = shutdown
      ]_vars
  /\ [][(rpc \in {"errBody", "deliver"} /\ rpc' # rpc) =>
          /\ callErr' = callErr
          /\ doneCount'[rcall] = doneCount[rcall] + (IF rpc = "deliver" THEN 1 ELSE 0)
          /\ \A c \in Calls \ {rcall} : doneCount'[c] = doneCount[c]
          /\ pending' = pending
          /\ closing' = closing /\ shutdown' = shutdown
      ]_vars

\* the positions in q of the frames of kind k written by response writer t
FramesOf(q, k, t) == {i \in 1 .. Len(q) : q[i][1] = k /\ q[i][2] = WriterTask(t)}

\* the request whose body is being read is one the server reads successfully
ReadsGoodBody == spc = "readBody" /\ inq # <<>> /\ inq[1] = <<"B", "string">>

\* C14 as claimed: a request read successfully is answered once, with its
\* sequence number and ServiceMethod, an empty Error and the reply derived
\* from the sequence number.
C14_AnswerHasEmptyError ==
  role = "server" =>
    \A t \in Workers :
      (wpc[t] # "none" /\ wreq[t].argvErr = NilErr) =>
         /\ wreq[t].h.Error = <<>>
         /\ wreq[t].body = <<"geerpc resp", wreq[t].h.Seq>>
         /\ \A i \in FramesOf(wire \o buf, "H", t) : (wire \o buf)[i][3].Error = <<>>

\* C14, amended: a request read successfully is handed to one new worker
\* with the Header as read; the worker answers once, with that Header
\* unchanged (sequence number, ServiceMethod and Error) and the reply derived
\* from the sequence number, and the answer is on the connection when the
\* worker is done unless a write on the connection has failed.
C14_AnswerEchoesHeader ==
  /\ [][ReadsGoodBody /\ spc' # "readBody" =>
          \E t \in Workers :
            /\ wpc[t] = "none" /\ wpc'[t] = "start"
            /\ wreq'[t].h = sreq
            /\ wreq'[t].body = <<"geerpc resp", sreq.Seq>>
            /\ \A u \in Workers \ {t} : wpc'[u] = wpc[u] /\ wreq'[u] = wreq[u]
            /\ wpc'[0] = "none"
       ]_vars
  /\ [][\A t \in Workers : wpc[t] # "none" => wreq'[t] = wreq[t]]_vars
  /\ [](\A t \in Workers :
          /\ Cardinality(FramesOf(wire \o buf, "H", t)) <= 1
          /\ Cardinality(FramesOf(wire \o buf, "B", t)) <= 1
          /\ \A i \in FramesOf(wire \o buf, "H", t) : (wire \o buf)[i][3] = wreq[t].h
          /\ \A i \in FramesOf(wire \o buf, "B", t) : (wire \o buf)[i][3] = wreq[t].body
          /\ (wpc[t] = "done" /\ ~bufErr) =>
                /\ Cardinality(FramesOf(wire, "H", t)) = 1
                /\ Cardinality(FramesOf(wire, "B", t)) = 1)

\* two requests with the same ServiceMethod and the sequence numbers 1 and 0
\* have been answered, the second first
C14_Witness ==
  /\ role = "server"
  /\ wpc[1] = "done" /\ wpc[2] = "done"
  /\ wreq[1].h.Seq = 1 /\ wreq[2].h.Seq = 0
  /\ wreq[1].h.Error = <<>> /\ wreq[2].h.Error = <<>>
  /\ wire = << HeaderFrame(WriterTask(2), wreq[2].h), BodyFrame(WriterTask(2), <<"geerpc resp", 0>>),
               HeaderFrame(WriterTask(1), wreq[1].h), BodyFrame(WriterTask(1), <<"geerpc resp", 1>>) >>

\* the positions in q of the request Headers
RequestHeaders(q) == {i \in 1 .. Len(q) : q[i][1] = "H"}

\* C15: the request Headers a client has encoded, flushed or not, carry
\* strictly increasing sequence numbers in stream order, each the number of
\* the Call whose send wrote it, and each body comes right after the Header
\* of the same Call.
C15_WrittenInSeqOrder ==
  role = "client" =>
    LET q == wire \o buf IN
      /\ \A i, j \in RequestHeaders(q) : i < j => q[i][3].Seq < q[j][3].Seq
      /\ \A i \in RequestHeaders(q) :
            \E c \in Calls : q[i][2] = <<"call", c>> /\ callSeq[c] = q[i][3].Seq
      /\ \A i \in 1 .. Len(q) :
            q[i][1] = "B" => (i - 1 \in RequestHeaders(q) /\ q[i - 1][2] = q[i][2])

\* every Call has been written, and the stream holds their requests in the
\* order of their sequence numbers
C15_Witness ==
  /\ role = "client"
  /\ Len(wire) = 1 + 2 * MaxCalls
  /\ \A c \in Calls : wire[2 * c][3].Seq = c /\ wire[2 * c + 1][1] = "B"

\* C16 as claimed: no Call that has been sent on its Done channel is still
\* a value of the pending map.
C16_DoneNotPending ==
  role = "client" =>
    \A c \in Calls : doneCount[c] >= 1 => c \notin Range(pending)

\* C16, amended: a Call completed by receive's switch or by send is out of
\* the pending map when it is sent on Done; only the Calls terminateCalls
\* completes stay in the map, with shutdown set.
C16_RemovedUnlessTerminated ==
  /\ [][\A c \in Calls :
          doneCount'[c] # doneCount[c] =>
             \/ c \notin Range(pending) /\ c \notin Range(pending')
             \/ rpc = "rangeDone" /\ shutdown /\ mu = ReceiveTask
       ]_vars
  /\ [](\A c \in Calls :
          (doneCount[c] >= 1 /\ c \in Range(pending)) =>
             /\ shutdown
             /\ rpc \in {"range", "rangeDone", "exited"}
             /\ callErr[c] = rerr)

\* one Call was completed by send after a failed write and is out of the
\* map; another was completed by terminateCalls and is still in it
C16_Witness ==
  \E c, d \in Calls :
    /\ doneCount[c] = 1 /\ callErr[c] = <<"write error">> /\ c \notin Range(pending)
    /\ doneCount[d] = 1 /\ d \in Range(pending) /\ rpc = "exited"

\* the Calls whose send holds the send lock and needs the bookkeeping lock
\* for its next step
SendWaitsForMu ==
  {c \in Calls : sending = <<"call", c>> /\ pc[c] \in {"register", "remove"}}

\* C17: a task that holds the bookkeeping lock from one step to the next
\* holds the send lock as well, so none asks for the send lock with the
\* bookkeeping lock in hand; and there is no state in which a send holds the
\* send lock and waits for the bookkeeping lock while terminateCalls holds
\* the bookkeeping lock and waits for the send lock.
C17_SendLockFirst ==
  role = "client" =>
    /\ mu # Free => sending = mu
    /\ rpc = "locked" => (sending = ReceiveTask /\ mu = Free)
    /\ ~(SendWaitsForMu # {} /\ mu = ReceiveTask)

\* terminateCalls holds the send lock and is about to take the bookkeeping
\* lock, while a Go is waiting to enter send and Close has run
C17_Witness ==
  /\ role = "client"
  /\ rpc = "locked"
  /\ sending = ReceiveTask
  /\ closing
  /\ \E c \in Calls : pc[c] = "idle"
  /\ pending # <<>>

\* terminateCalls is inside call.done(), waiting for room in the Done channel
TerminateBlockedOnDone == rpc = "rangeDone" /\ ChanFull

\* C18: the bookkeeping lock is not held by a task that is
\* inside codec.Write or waiting to send a Call on a full Done channel, so
\* IsAvailable can take the lock in every such state.
C18_MuHeldOnlyBriefly ==
  role = "client" =>
    /\ (\E c \in Calls : pc[c] \in {"writeHeader", "writeBody"}) => IsAvailableMayEnter
    /\ (ChanFull /\ \E c \in Calls : pc[c] \in {"rejected", "failed"}) => IsAvailableMayEnter
    /\ (ChanFull /\ rpc = "deliver") => IsAvailableMayEnter
    /\ TerminateBlockedOnDone => IsAvailableMayEnter

\* C19: when the client's cc.Write returns nil (send returns without
\* removeCall) the Header and the body have left the buffer for the
\* connection, and when it returns an error the codec has been closed.
C19_WriteSuccessMeansFlushed ==
  [][role = "client" =>
       \A c \in Calls :
         /\ (pc[c] = "writeBody" /\ pc'[c] = "returned") =>
               (buf' = <<>> /\ ~bufErr')
         /\ (pc[c] \in {"writeHeader", "writeBody"} /\ pc'[c] = "remove") =>
               connClosed']_vars

\* a step in which serveCodec or a response writer calls ReadHeader, ReadBody
\* or Write on the connection's codec
CodecUsed ==
  \/ spc \in {"readHeader", "readBody"} /\ spc' # spc
  \/ \E t \in Writers : wpc[t] \in {"start", "writeBody"} /\ wpc'[t] # wpc[t]

\* C20: on a server connection, once the codec has been closed no step
\* reads from it or writes to it.
C20_NoUseAfterClose ==
  [][(role = "server" /\ codecMade /\ connClosed) => ~CodecUsed]_vars
====
